---- MODULE Spec2Model ----
(***************************************************************************)
(* The TicTacToe session class of src/src/program/tic-tac-toe.js: the      *)
(* keep-alive loop, the change-notification bridge, the state decoder and  *)
(* the liveness rule, as one state machine.  One step of the machine is    *)
(* one run-to-completion section of JavaScript: the code between two       *)
(* awaits, a timer callback, or a subscription callback.                   *)
(***************************************************************************)
EXTENDS Integers, Sequences, FiniteSets

\* ------------------------------------------------------------------ bounds
\* Wall-clock readings (Date.now()) range over StartTime..MaxNow.
StartTime == 19999
MaxNow == 20000

\* ------------------------------------------------------- program constants
\* isPeerAlive: Date.now() - peerKeepAlive < 10000
PeerTimeout == 10000
\* create: newProgramAccount(..., 256) userdata space
UserdataSpace == 256

\* ------------------------------------------------------------ value spaces
\* null / undefined are the empty tuple, a present value v is <<v>>.
NULL == << >>
UNDEFINED == << >>

\* The six phases the on-chain program produces, and one it does not.
Phases == {"Waiting", "XMove", "OMove", "Draw", "XWon", "OWon"}
WirePhases == Phases \cup {"Bogus"}

\* Clock readings.
ClockValues == StartTime..MaxNow

\* Keep-alive markers found in a snapshot: 0 (never sent, or abandoned), or
\* the oldest marker that still counts as alive at StartTime.
Markers == {0, StartTime + 1 - PeerTimeout}

\* Boards as the program encodes them ('F' free, 'X', 'O'), one per phase.
WireBoard(phase) ==
    CASE phase = "Waiting" -> <<"F", "F", "F", "F", "F", "F", "F", "F", "F">>
      [] phase = "XMove"   -> <<"X", "F", "F", "F", "O", "F", "F", "F", "F">>
      [] phase = "OMove"   -> <<"X", "F", "F", "F", "O", "F", "F", "F", "X">>
      [] phase = "XWon"    -> <<"X", "X", "X", "O", "O", "F", "F", "F", "F">>
      [] phase = "OWon"    -> <<"X", "X", "F", "O", "O", "O", "F", "F", "X">>
      [] phase = "Draw"    -> <<"X", "O", "X", "X", "O", "O", "O", "X", "X">>
      [] OTHER             -> <<"F", "F", "F", "F", "F", "F", "F", "F", "F">>

\* Coordinates a caller passes to move().
Coords == {0, 2}

\* Listener functions a caller registers.
Fns == {"f", "g"}

\* Account snapshots (AccountInfo.userdata): the buffer size, the value of the
\* 4-byte little-endian length prefix, and the CBOR value the payload decodes to.
GameOf(phase, ka) ==
    [state |-> phase,
     board |-> WireBoard(phase),
     player_x |-> "pkX",
     player_o |-> IF phase = "Waiting" THEN NULL ELSE <<"pkO">>,
     keep_alive |-> ka]

Snapshot(s, l, t, p, ka) == [size |-> s, length |-> l, tag |-> t, game |-> GameOf(p, ka)]

\* The phases in which liveness is judged, with every marker pair; the other
\* phases with no marker and with both markers set.
WellFormedSnapshots ==
    { Snapshot(UserdataSpace, 100, "Game", p, <<a, b>>) :
        p \in {"XMove", "OMove"}, a \in Markers, b \in Markers }
    \cup { Snapshot(UserdataSpace, 100, "Game", p, <<a, a>>) :
        p \in Phases \ {"XMove", "OMove"}, a \in Markers }

\* A phase tag the program does not know.
BogusSnapshots == { Snapshot(UserdataSpace, 100, "Game", "Bogus", <<0, 0>>) }

\* Buffers around the length check, an empty buffer and a foreign top-level tag.
EdgeSnapshots ==
    { Snapshot(UserdataSpace, l, "Game", "XMove", <<0, 0>>) :
        l \in {UserdataSpace - 5, UserdataSpace - 4, UserdataSpace - 3, 2 * UserdataSpace} }
    \cup { Snapshot(0, 0, "Game", "XMove", <<0, 0>>),
           Snapshot(UserdataSpace, 100, "Other", "XMove", <<0, 0>>) }

Snapshots == WellFormedSnapshots \cup BogusSnapshots \cup EdgeSnapshots

VARIABLES
    abandoned,              \* this.abandoned
    isX,                    \* this.isX
    state,                  \* this.state (the view)
    _changeSubscriptionId,  \* this._changeSubscriptionId
    _ee,                    \* listeners registered for 'change'
    pc,                     \* where the session's own control is
    call,                   \* the caller's outstanding abandon()/move()
    invoked,                \* the caller's call begun by the last step, with its arguments
    returned,               \* calls that ended in the last step, with their outcome
    now,                    \* Date.now()
    sent,                   \* commands handed to sendAndConfirmTransaction by the last step
    fired,                  \* 'change' events emitted by the last step
    decoded,                \* the _getGameState call of the last step: argument and outcome
    thrown,                 \* error the last step threw to its caller, uncaught
    logged,                 \* whether the last step logged an error (console.error)
    subscribeCalls,         \* calls of connection.onAccountChange so far
    unsubscribed,           \* ids passed to connection.removeAccountChangeListener
    forcedAbandon           \* whether an account update has applied the liveness adjustment

vars == <<abandoned, isX, state, _changeSubscriptionId, _ee, pc, call, invoked, returned,
          now, sent, fired, decoded, thrown, logged, subscribeCalls, unsubscribed,
          forcedAbandon>>

\* ----------------------------------------------------------- pure functions
\* constructor: the initial view
InitialState ==
    [gameState |-> "Waiting", inProgress |-> FALSE, myTurn |-> FALSE,
     draw |-> FALSE, winner |-> FALSE, playerX |-> NULL, playerO |-> NULL,
     board |-> << >>, keep_alive |-> <<0, 0>>]

\* the check comparing the payload length alone, the 4 prefix bytes forgotten
LengthInvalidNoPrefix(length, size) == length >= size

\* _getGameState: the length check on the prefix
LengthInvalid(length, size) == length + 4 >= size

\* _getGameState: board: game.board.map(i => i === 'F' ? ' ' : i)
MapBoard(board) == [i \in DOMAIN board |-> IF board[i] = "F" THEN " " ELSE board[i]]

\* the switch without the XMove case falling through to OMove
InProgressOfOMoveOnly(gameState) == gameState = "OMove"

\* _getGameState: the switch on state.gameState
InProgressOf(gameState) == gameState \in {"XMove", "OMove"}

DrawOf(gameState) == gameState = "Draw"

\* _getGameState throwing: the error, and whether cbor.decode had been called
Failure(error, cbor) ==
    [ok |-> FALSE, error |-> error, cbor |-> cbor, state |-> InitialState]

\* _getGameState(accountInfo): the decoded view, or the error thrown
_getGameState(accountInfo) ==
    IF accountInfo.size < 4
    THEN Failure("RangeError", FALSE)              \* userdata.readUInt32LE(0)
    ELSE IF LengthInvalid(accountInfo.length, accountInfo.size)
    THEN Failure("Invalid game state length", FALSE)
    ELSE IF accountInfo.tag # "Game"
    THEN Failure("Invalid game state type", TRUE)
    ELSE IF accountInfo.game.state \notin Phases
    THEN Failure("Unhandled game state", TRUE)
    ELSE [ok |-> TRUE, error |-> "none", cbor |-> TRUE,
          state |-> [gameState |-> accountInfo.game.state,
                     inProgress |-> InProgressOf(accountInfo.game.state),
                     myTurn |-> FALSE,
                     draw |-> DrawOf(accountInfo.game.state),
                     winner |-> FALSE,
                     playerX |-> <<accountInfo.game.player_x>>,
                     playerO |-> accountInfo.game.player_o,
                     board |-> MapBoard(accountInfo.game.board),
                     keep_alive |-> accountInfo.game.keep_alive]]

\* the player's own slot read instead of the peer's
PeerSlotOwn(x) == IF x THEN 1 ELSE 2

\* isPeerAlive: the peer's slot of keep_alive (1-based here: JS index + 1)
PeerSlot(x) == IF x THEN 2 ELSE 1

\* isPeerAlive() with the boundary included (<= for <)
isPeerAliveInclusive(st, x, t) == t - st.keep_alive[PeerSlot(x)] <= PeerTimeout

\* isPeerAlive()
isPeerAlive(st, x, t) == t - st.keep_alive[PeerSlot(x)] < PeerTimeout

\* the myTurn switch with the OMove case copied from XMove
MyTurnOfCopied(gameState, x) ==
    CASE gameState = "XMove" -> x
      [] gameState = "OMove" -> x
      [] OTHER -> FALSE

\* _onAccountChange: the switch that sets myTurn
MyTurnOf(gameState, x) ==
    CASE gameState = "XMove" -> x
      [] gameState = "OMove" -> ~x
      [] OTHER -> FALSE

\* the winner switch with the OWon case copied from XWon
WinnerOfCopied(gameState, x) ==
    CASE gameState = "XWon" -> x
      [] gameState = "OWon" -> x
      [] OTHER -> FALSE

\* _onAccountChange: the switch that sets winner
WinnerOf(gameState, x) ==
    CASE gameState = "XWon" -> x
      [] gameState = "OWon" -> ~x
      [] OTHER -> FALSE

\* _onAccountChange: the liveness adjustment applies when this holds
PeerGone(st, x, t) == st.inProgress /\ ~isPeerAlive(st, x, t)

\* this.abandoned assigned the test's value instead of set when it holds
AbandonedAfterAssigned(was, gone) == gone

\* _onAccountChange: this.abandoned after the liveness adjustment
AbandonedAfter(was, gone) == IF gone THEN TRUE ELSE was

\* _onAccountChange: this.state.inProgress after the liveness adjustment
InProgressAfter(inProgress, gone) == IF gone THEN FALSE ELSE inProgress

\* _getGameState of every snapshot, computed once
Decoded == [accountInfo \in Snapshots |-> _getGameState(accountInfo)]

\* _onAccountChange(accountInfo) up to the emit: the new state and abandoned,
\* or the error thrown (this.state is assigned only if _getGameState returns)
OnAccountChange(accountInfo, x, was, t) ==
    LET got == Decoded[accountInfo]
        derived == [got.state EXCEPT !.myTurn = MyTurnOf(got.state.gameState, x),
                                     !.winner = WinnerOf(got.state.gameState, x)]
        gone == PeerGone(derived, x, t)
    IN  IF ~got.ok
        THEN [ok |-> FALSE, error |-> got.error, state |-> InitialState, abandoned |-> was,
              gone |-> FALSE]
        ELSE [ok |-> TRUE, error |-> "none", gone |-> gone,
              state |-> [derived EXCEPT !.inProgress = InProgressAfter(derived.inProgress, gone)],
              abandoned |-> AbandonedAfter(was, gone)]

\* A call of _getGameState as the step records it: who called (the change
\* bridge or the static getGameState), the buffer passed, what came of it.
DecodeCall(by, accountInfo) ==
    <<[by |-> by, userdata |-> accountInfo, got |-> Decoded[accountInfo]]>>

\* _ee.emit('change'): one event; every registered listener runs and reads the
\* session as it is at that moment
Emit(listeners, st, ab) == <<[to |-> listeners, state |-> st, abandoned |-> ab]>>

\* the default taken for every falsy when (when || Date.now())
KeepAliveCmdFalsy(when, t) ==
    [cmd |-> "KeepAlive",
     args |-> <<IF when = UNDEFINED \/ when[1] = 0 THEN t ELSE when[1]>>]

\* keepAlive(when): the command encoded
KeepAliveCmd(when, t) ==
    [cmd |-> "KeepAlive", args |-> <<IF when = UNDEFINED THEN t ELSE when[1]>>]

\* the coordinates encoded in the other order
MoveCmdSwapped(x, y) == [cmd |-> "Move", args |-> <<y, x>>]

\* move(x, y): the command encoded
MoveCmd(x, y) == [cmd |-> "Move", args |-> <<x, y>>]

\* join: the command encoded
JoinCmd(t) == [cmd |-> "Join", args |-> <<t>>]

\* scheduleNextKeepAlive: the phases at which the timer callback ends the loop
LoopExitStates == {"XWon", "OWin", "Draw"}

\* scheduleNextKeepAlive subscribing on every call
MustSubscribeAlways(id) == TRUE

\* scheduleNextKeepAlive: whether it subscribes
MustSubscribe(id) == id = NULL

\* connection.onAccountChange: the id handed out for the n-th subscription
SubscriptionId(n) == <<n>>

\* abandon(): how the call ends, given how its keepAlive(0) send ended
AbandonOutcome(sendOk) == IF sendOk THEN "resolved" ELSE "rejected"

\* move(): how the call ends, given how its send ended
MoveOutcome(sendOk) == IF sendOk THEN "resolved" ELSE "rejected"

\* The remote program's game only moves forward: Waiting, then the turns,
\* then one final phase that stays.
PhaseFollows(cur, next) ==
    CASE cur = "Waiting" -> TRUE
      [] cur \in {"XMove", "OMove"} -> next # "Waiting"
      [] OTHER -> next = cur

\* The snapshots the remote record can hold when the view shows st: any buffer
\* that does not decode, or a game at or after the phase last seen.
Deliverable(st) ==
    { a \in Snapshots : Decoded[a].ok => PhaseFollows(st.gameState, a.game.state) }

\* ------------------------------------------------------------------ state
Idle == "none"

\* The session has been returned to its caller by create/join.
Started == pc \in {"timer", "sending", "stopped"}

Quiet ==
    /\ sent' = << >> /\ fired' = << >> /\ decoded' = << >> /\ thrown' = "none" /\ logged' = FALSE
    /\ returned' = << >> /\ invoked' = << >>

Init ==
    /\ abandoned = FALSE
    /\ isX \in BOOLEAN
    /\ state = InitialState
    /\ _changeSubscriptionId = NULL
    /\ _ee = {}
    /\ pc = "new"
    /\ call = Idle
    /\ invoked = << >>
    /\ returned = << >>
    /\ now = StartTime
    /\ sent = << >>
    /\ fired = << >>
    /\ decoded = << >>
    /\ thrown = "none"
    /\ logged = FALSE
    /\ subscribeCalls = 0
    /\ unsubscribed = << >>
    /\ forcedAbandon = FALSE

\* scheduleNextKeepAlive(): subscribe if not subscribed, arm the timer
ScheduleNextKeepAlive ==
    /\ IF MustSubscribe(_changeSubscriptionId)
       THEN /\ _changeSubscriptionId' = SubscriptionId(subscribeCalls + 1)
            /\ subscribeCalls' = subscribeCalls + 1
       ELSE UNCHANGED <<_changeSubscriptionId, subscribeCalls>>
    /\ pc' = "timer"

\* the view assigned field by field as the payload is read, before the checks
\* on it: a payload that was decoded and then refused leaves its phase behind
ApplyAccountChangeAssignsFirst(accountInfo) ==
    LET r == OnAccountChange(accountInfo, isX, abandoned, now)
    IN  /\ decoded' = DecodeCall("bridge", accountInfo)
        /\ IF r.ok
           THEN /\ state' = r.state
                /\ abandoned' = r.abandoned
                /\ fired' = Emit(_ee, r.state, r.abandoned)
                /\ thrown' = "none"
                /\ forcedAbandon' = (forcedAbandon \/ r.gone)
           ELSE /\ state' = IF Decoded[accountInfo].cbor
                            THEN [state EXCEPT !.gameState = accountInfo.game.state]
                            ELSE state
                /\ UNCHANGED <<abandoned, forcedAbandon>>
                /\ fired' = << >>
                /\ thrown' = r.error

\* the emit placed before the liveness adjustment: listeners run on the view
\* and the abandoned flag as they were before it
ApplyAccountChangeEmitsEarly(accountInfo) ==
    LET r == OnAccountChange(accountInfo, isX, abandoned, now)
    IN  /\ decoded' = DecodeCall("bridge", accountInfo)
        /\ IF r.ok
           THEN /\ state' = r.state
                /\ abandoned' = r.abandoned
                /\ fired' = Emit(_ee, [r.state EXCEPT
                                         !.inProgress = InProgressOf(r.state.gameState)],
                                 abandoned)
                /\ thrown' = "none"
                /\ forcedAbandon' = (forcedAbandon \/ r.gone)
           ELSE /\ UNCHANGED <<state, abandoned, forcedAbandon>>
                /\ fired' = << >>
                /\ thrown' = r.error

\* _onAccountChange(accountInfo): assign the view, adjust for liveness, emit;
\* on a throw nothing is assigned
ApplyAccountChange(accountInfo) ==
    LET r == OnAccountChange(accountInfo, isX, abandoned, now)
    IN  /\ decoded' = DecodeCall("bridge", accountInfo)
        /\ IF r.ok
           THEN /\ state' = r.state
                /\ abandoned' = r.abandoned
                /\ fired' = Emit(_ee, r.state, r.abandoned)
                /\ thrown' = "none"
                /\ forcedAbandon' = (forcedAbandon \/ r.gone)
           ELSE /\ UNCHANGED <<state, abandoned, forcedAbandon>>
                /\ fired' = << >>
                /\ thrown' = r.error

\* ---------------------------------------------------------------- actions
\* create(): new TicTacToe(..., true, ...); ttt.scheduleNextKeepAlive()
Create ==
    /\ pc = "new" /\ isX
    /\ ScheduleNextKeepAlive
    /\ Quiet
    /\ UNCHANGED <<abandoned, isX, state, _ee, call, now, unsubscribed, forcedAbandon>>

\* join(): new TicTacToe(..., false, ...); the Join command is submitted
JoinSend ==
    /\ pc = "new" /\ ~isX
    /\ pc' = "joining"
    /\ sent' = <<JoinCmd(now)>>
    /\ fired' = << >> /\ decoded' = << >> /\ thrown' = "none" /\ logged' = FALSE
    /\ returned' = << >> /\ invoked' = << >>
    /\ UNCHANGED <<abandoned, isX, state, _changeSubscriptionId, _ee, call, now,
                   subscribeCalls, unsubscribed, forcedAbandon>>

\* join(): the Join command is refused: join() rejects, no session is returned
JoinRejected ==
    /\ pc = "joining"
    /\ pc' = "failed"
    /\ thrown' = "CommandRejected"
    /\ sent' = << >> /\ fired' = << >> /\ decoded' = << >> /\ logged' = FALSE
    /\ returned' = << >> /\ invoked' = << >>
    /\ UNCHANGED <<abandoned, isX, state, _changeSubscriptionId, _ee, call, now,
                   subscribeCalls, unsubscribed, forcedAbandon>>

\* join(): ttt._onAccountChange(await getAccountInfo()); ttt.scheduleNextKeepAlive()
JoinFetched ==
    /\ pc = "joining"
    /\ \E accountInfo \in Deliverable(state) :
          /\ ApplyAccountChange(accountInfo)
          /\ IF OnAccountChange(accountInfo, isX, abandoned, now).ok
             THEN ScheduleNextKeepAlive
             ELSE pc' = "failed" /\ UNCHANGED <<_changeSubscriptionId, subscribeCalls>>
    /\ sent' = << >> /\ logged' = FALSE /\ returned' = << >> /\ invoked' = << >>
    /\ UNCHANGED <<isX, _ee, call, now, unsubscribed>>

\* the abandoned branch unsubscribing without clearing the handle
TickAbandonedKeepsHandle ==
    /\ pc = "timer"
    /\ abandoned
    /\ unsubscribed' = Append(unsubscribed, _changeSubscriptionId)
    /\ pc' = "stopped"
    /\ Quiet
    /\ UNCHANGED <<abandoned, isX, state, _changeSubscriptionId, _ee, call, now,
                   subscribeCalls, forcedAbandon>>

\* timer callback, this.abandoned: release the subscription, end the loop
TickAbandoned ==
    /\ pc = "timer"
    /\ abandoned
    /\ IF _changeSubscriptionId # NULL
       THEN /\ _changeSubscriptionId' = NULL
            /\ unsubscribed' = Append(unsubscribed, _changeSubscriptionId)
       ELSE UNCHANGED <<_changeSubscriptionId, unsubscribed>>
    /\ pc' = "stopped"
    /\ Quiet
    /\ UNCHANGED <<abandoned, isX, state, _ee, call, now, subscribeCalls, forcedAbandon>>

\* timer callback, game over: end the loop
TickGameOver ==
    /\ pc = "timer"
    /\ ~abandoned
    /\ state.gameState \in LoopExitStates
    /\ pc' = "stopped"
    /\ Quiet
    /\ UNCHANGED <<abandoned, isX, state, _changeSubscriptionId, _ee, call, now,
                   subscribeCalls, unsubscribed, forcedAbandon>>

\* the callback sending without having tested this.abandoned
TickKeepAliveUnchecked ==
    /\ pc = "timer"
    /\ state.gameState \notin LoopExitStates
    /\ pc' = "sending"
    /\ sent' = <<KeepAliveCmd(UNDEFINED, now)>>
    /\ fired' = << >> /\ decoded' = << >> /\ thrown' = "none" /\ logged' = FALSE
    /\ returned' = << >> /\ invoked' = << >>
    /\ UNCHANGED <<abandoned, isX, state, _changeSubscriptionId, _ee, call, now,
                   subscribeCalls, unsubscribed, forcedAbandon>>

\* timer callback, otherwise: await this.keepAlive()
TickKeepAlive ==
    /\ pc = "timer"
    /\ ~abandoned
    /\ state.gameState \notin LoopExitStates
    /\ pc' = "sending"
    /\ sent' = <<KeepAliveCmd(UNDEFINED, now)>>
    /\ fired' = << >> /\ decoded' = << >> /\ thrown' = "none" /\ logged' = FALSE
    /\ returned' = << >> /\ invoked' = << >>
    /\ UNCHANGED <<abandoned, isX, state, _changeSubscriptionId, _ee, call, now,
                   subscribeCalls, unsubscribed, forcedAbandon>>

\* the await without its try/catch: a failed send ends the callback
KeepAliveSettledUncaught ==
    /\ pc = "sending"
    /\ \E sendOk \in BOOLEAN :
          IF sendOk
          THEN ScheduleNextKeepAlive /\ thrown' = "none"
          ELSE /\ pc' = "stopped"
               /\ thrown' = "CommandRejected"
               /\ UNCHANGED <<_changeSubscriptionId, subscribeCalls>>
    /\ sent' = << >> /\ fired' = << >> /\ decoded' = << >> /\ logged' = FALSE
    /\ returned' = << >> /\ invoked' = << >>
    /\ UNCHANGED <<abandoned, isX, state, _ee, call, now, unsubscribed, forcedAbandon>>

\* timer callback after the await: catch and log a failure, then
\* this.scheduleNextKeepAlive()
KeepAliveSettled ==
    /\ pc = "sending"
    /\ \E sendOk \in BOOLEAN : logged' = ~sendOk
    /\ ScheduleNextKeepAlive
    /\ sent' = << >> /\ fired' = << >> /\ decoded' = << >> /\ thrown' = "none"
    /\ returned' = << >> /\ invoked' = << >>
    /\ UNCHANGED <<abandoned, isX, state, _ee, call, now, unsubscribed, forcedAbandon>>

\* the connection invokes the subscription's callback: _onAccountChange
AccountChange ==
    /\ _changeSubscriptionId # NULL
    /\ \E accountInfo \in Deliverable(state) : ApplyAccountChange(accountInfo)
    /\ sent' = << >> /\ logged' = FALSE /\ returned' = << >> /\ invoked' = << >>
    /\ UNCHANGED <<isX, _changeSubscriptionId, _ee, pc, call, now,
                   subscribeCalls, unsubscribed>>

\* abandon(): this.abandoned = true; await this.keepAlive(0)
Abandon ==
    /\ Started
    /\ call = Idle
    /\ abandoned' = TRUE
    /\ sent' = <<KeepAliveCmd(<<0>>, now)>>
    /\ call' = "abandon"
    /\ invoked' = <<[op |-> "abandon", args |-> << >>]>>
    /\ fired' = << >> /\ decoded' = << >> /\ thrown' = "none" /\ logged' = FALSE
    /\ returned' = << >>
    /\ UNCHANGED <<isX, state, _changeSubscriptionId, _ee, pc, now,
                   subscribeCalls, unsubscribed, forcedAbandon>>

\* move(x, y): await sendAndConfirmTransaction(['Move', x, y])
Move ==
    /\ Started
    /\ call = Idle
    /\ \E x \in Coords, y \in Coords :
          /\ invoked' = <<[op |-> "move", args |-> <<x, y>>]>>
          /\ sent' = <<MoveCmd(x, y)>>
    /\ call' = "move"
    /\ fired' = << >> /\ decoded' = << >> /\ thrown' = "none" /\ logged' = FALSE
    /\ returned' = << >>
    /\ UNCHANGED <<abandoned, isX, state, _changeSubscriptionId, _ee, pc, now,
                   subscribeCalls, unsubscribed, forcedAbandon>>

\* the send of the outstanding abandon()/move() settles; the call ends
CallSettled ==
    /\ call # Idle
    /\ call' = Idle
    /\ \E sendOk \in BOOLEAN :
          returned' = <<[op |-> call,
                         send |-> IF sendOk THEN "confirmed" ELSE "failed",
                         outcome |-> IF call = "abandon" THEN AbandonOutcome(sendOk)
                                                         ELSE MoveOutcome(sendOk)]>>
    /\ sent' = << >> /\ fired' = << >> /\ decoded' = << >> /\ thrown' = "none" /\ logged' = FALSE
    /\ invoked' = << >>
    /\ UNCHANGED <<abandoned, isX, state, _changeSubscriptionId, _ee, pc, now,
                   subscribeCalls, unsubscribed, forcedAbandon>>

\* static getGameState(connection, gameKey): fetch the account and decode it.
\* It reads and writes nothing of a session, so it is taken before one exists.
GetGameState ==
    /\ pc = "new"
    /\ \E accountInfo \in Snapshots :
          /\ decoded' = DecodeCall("static", accountInfo)
          /\ thrown' = Decoded[accountInfo].error
    /\ sent' = << >> /\ fired' = << >> /\ logged' = FALSE
    /\ returned' = << >> /\ invoked' = << >>
    /\ UNCHANGED <<abandoned, isX, state, _changeSubscriptionId, _ee, pc, call, now,
                   subscribeCalls, unsubscribed, forcedAbandon>>

\* isPeerAlive(): called on a session, returns at once
IsPeerAlive ==
    /\ Started
    /\ returned' = <<[op |-> "isPeerAlive", value |-> isPeerAlive(state, isX, now)]>>
    /\ sent' = << >> /\ fired' = << >> /\ decoded' = << >> /\ thrown' = "none" /\ logged' = FALSE
    /\ invoked' = << >>
    /\ UNCHANGED <<abandoned, isX, state, _changeSubscriptionId, _ee, pc, call, now,
                   subscribeCalls, unsubscribed, forcedAbandon>>

\* onChange(fn)
OnChange ==
    /\ Started
    /\ \E fn \in Fns \ _ee : _ee' = _ee \cup {fn}
    /\ Quiet
    /\ UNCHANGED <<abandoned, isX, state, _changeSubscriptionId, pc, call, now,
                   subscribeCalls, unsubscribed, forcedAbandon>>

\* removeChangeListener(fn)
RemoveChangeListener ==
    /\ Started
    /\ \E fn \in _ee : _ee' = _ee \ {fn}
    /\ Quiet
    /\ UNCHANGED <<abandoned, isX, state, _changeSubscriptionId, pc, call, now,
                   subscribeCalls, unsubscribed, forcedAbandon>>

\* time passes
AdvanceClock ==
    /\ \E t \in ClockValues : t > now /\ now' = t
    /\ Quiet
    /\ UNCHANGED <<abandoned, isX, state, _changeSubscriptionId, _ee, pc, call,
                   subscribeCalls, unsubscribed, forcedAbandon>>

Next ==
    \/ Create
    \/ JoinSend
    \/ JoinRejected
    \/ JoinFetched
    \/ TickAbandoned
    \/ TickGameOver
    \/ TickKeepAlive
    \/ KeepAliveSettled
    \/ AccountChange
    \/ Abandon
    \/ Move
    \/ CallSettled
    \/ GetGameState
    \/ IsPeerAlive
    \/ OnChange
    \/ RemoveChangeListener
    \/ AdvanceClock

Spec == Init /\ [][Next]_vars

\* Timers fire and remote calls return: an armed timer callback runs, an
\* awaited send or fetch settles, create() runs on to its end.
Tick == TickAbandoned \/ TickGameOver \/ TickKeepAlive

FairSpec ==
    /\ Spec
    /\ WF_vars(Create)
    /\ WF_vars(JoinRejected \/ JoinFetched)
    /\ WF_vars(Tick)
    /\ WF_vars(KeepAliveSettled)
    /\ WF_vars(CallSettled)

\* ------------------------------------------------------------------ claims
\* The phases the specification calls terminal.
TerminalPhases == {"XWon", "OWon", "Draw"}

\* A step in which the loop's timer callback runs.
TickStep == pc = "timer" /\ pc' # "timer"

\* A step in which the loop's awaited keepAlive() send settles.
SettleStep == pc = "sending" /\ pc' # "sending"

\* A step in which _onAccountChange runs to its end (it emits 'change').
UpdateStep == fired' # << >>

\* The peer's marker in a view: O's (index 1) for player X, X's (index 0) for O.
PeerMarker(st) == IF isX THEN st.keep_alive[2] ELSE st.keep_alive[1]

\* C1: at a timer tick where the session is not abandoned and the view's phase
\* is XWon, OWon or Draw, the loop submits no command and ends for good.
C1_LoopEndsInTerminalPhase ==
    [][(TickStep /\ ~abandoned /\ state.gameState \in TerminalPhases)
          => (sent' = << >> /\ pc' = "stopped")]_vars

\* C2: at a timer tick where abandoned is true, the subscription held is
\* released (the handle becomes null, unsubscribe is called once with the old
\* id), no command is submitted, and no tick is ever scheduled again.
C2_AbandonedTickReleases ==
    /\ [][(TickStep /\ abandoned)
            => /\ _changeSubscriptionId' = NULL
               /\ unsubscribed' = IF _changeSubscriptionId # NULL
                                  THEN Append(unsubscribed, _changeSubscriptionId)
                                  ELSE unsubscribed
               /\ sent' = << >>
               /\ pc' = "stopped"]_vars
    /\ [][pc = "stopped" => pc' = "stopped"]_vars

\* C2 witness: an abandoned tick has released subscription 1 and ended the loop.
C2_Witness ==
    /\ abandoned /\ pc = "stopped"
    /\ _changeSubscriptionId = NULL /\ unsubscribed = <<SubscriptionId(1)>>

\* C3: at a tick where the session is not abandoned and the phase is not
\* terminal the loop attempts keepAlive(); when that send settles, failed or
\* not, the next tick is scheduled, and the settling changes neither abandoned
\* nor the subscription.
C3_LoopSurvivesSendFailure ==
    /\ [][(TickStep /\ ~abandoned /\ state.gameState \notin TerminalPhases)
            => (pc' = "sending" /\ sent' = <<[cmd |-> "KeepAlive", args |-> <<now>>]>>)]_vars
    /\ [][SettleStep
            => /\ pc' = "timer"
               /\ abandoned' = abandoned
               /\ _changeSubscriptionId' = _changeSubscriptionId
               /\ unsubscribed' = unsubscribed]_vars

\* C3 witness: a keep-alive send has just failed (it was logged) and the next
\* tick is armed, the session not abandoned and still subscribed.
C3_Witness ==
    /\ logged /\ pc = "timer" /\ ~abandoned
    /\ _changeSubscriptionId # NULL

\* C4: connection.onAccountChange is called at most once per session, and a
\* call of scheduleNextKeepAlive while a subscription is held leaves the
\* subscription as it is.
C4_SubscribedAtMostOnce ==
    /\ [](subscribeCalls <= 1)
    /\ [][(_changeSubscriptionId # NULL /\ pc # "timer" /\ pc' = "timer")
            => (_changeSubscriptionId' = _changeSubscriptionId
                /\ subscribeCalls' = subscribeCalls)]_vars

\* C4 witness: scheduleNextKeepAlive has just run again, after a failed send
\* on an abandoned session, and the one subscription is still the one held.
C4_Witness ==
    /\ logged /\ pc = "timer" /\ abandoned
    /\ subscribeCalls = 1 /\ _changeSubscriptionId = SubscriptionId(1)

\* C5: in every execution where abandoned becomes true, by abandon() or by the
\* liveness rule, the subscription is eventually released, and it is released
\* at most once (timers fire and remote calls return: FairSpec).
C5_ReleasedOnAbandonment ==
    /\ abandoned ~> (_changeSubscriptionId = NULL)
    /\ [](Len(unsubscribed) <= 1)

\* C6: abandoned is false at construction and never goes from true to false.
C6_AbandonedMonotonic ==
    /\ ~abandoned
    /\ [][abandoned => abandoned']_vars

\* C6 witness: the session is abandoned and an account update that came after
\* found the peer alive.
C6_Witness ==
    /\ abandoned /\ fired # << >>
    /\ state.inProgress

\* C7: an account update with phase XMove or OMove whose peer marker is not
\* alive yields inProgress = false and abandoned = true; one whose peer marker
\* is alive yields inProgress = true and leaves abandoned as it was.
C7_LivenessAdjustment ==
    [][(UpdateStep /\ state'.gameState \in {"XMove", "OMove"})
          => IF now - PeerMarker(state') < PeerTimeout
             THEN state'.inProgress /\ abandoned' = abandoned
             ELSE ~state'.inProgress /\ abandoned']_vars

\* C7 witness: an update in XMove/OMove has just found the peer gone.
C7_Witness ==
    /\ fired # << >> /\ state.gameState \in {"XMove", "OMove"}
    /\ now - PeerMarker(state) >= PeerTimeout
    /\ ~state.inProgress /\ abandoned

\* C8: once an account update has forced inProgress = false and abandoned =
\* true, no later update produces a view with inProgress = true.
C8_AbandonmentTerminalForView == forcedAbandon => ~state.inProgress

\* C9: the view's myTurn is true exactly when (phase XMove and isX) or (phase
\* OMove and not isX), whatever the markers and the time.
C9_MyTurn ==
    state.myTurn <=> \/ (state.gameState = "XMove" /\ isX)
                     \/ (state.gameState = "OMove" /\ ~isX)

\* C9 witness: player O has received an update in OMove, peer marker stale.
C9_Witness ==
    /\ fired # << >> /\ ~isX /\ state.gameState = "OMove" /\ state.myTurn
    /\ now - PeerMarker(state) >= PeerTimeout

\* C10: winner is true exactly when (phase XWon and isX) or (phase OWon and
\* not isX), draw exactly when the phase is Draw, and in Waiting all of
\* inProgress, myTurn, draw and winner are false.
C10_Outcome ==
    /\ state.winner <=> \/ (state.gameState = "XWon" /\ isX)
                        \/ (state.gameState = "OWon" /\ ~isX)
    /\ state.draw <=> state.gameState = "Draw"
    /\ state.gameState = "Waiting"
          => ~(state.inProgress \/ state.myTurn \/ state.draw \/ state.winner)

\* C10 witness: player O has received an update in OWon.
C10_Witness == fired # << >> /\ ~isX /\ state.gameState = "OWon" /\ state.winner

\* C11: every record _getGameState returns (for getGameState or for the change
\* bridge, before any liveness adjustment) has inProgress true exactly when its
\* phase is XMove or OMove; and in every state of a session the view's
\* inProgress = true implies that its phase is XMove or OMove.
C11_InProgressDerivation ==
    /\ (decoded # << >> /\ decoded[1].got.ok)
          => (decoded[1].got.state.inProgress
                <=> decoded[1].userdata.game.state \in {"XMove", "OMove"})
    /\ state.inProgress => state.gameState \in {"XMove", "OMove"}

\* C11 witness: getGameState has just returned a record in phase XMove with
\* both markers at 0, inProgress true.
C11_Witness ==
    /\ decoded # << >> /\ decoded[1].by = "static" /\ decoded[1].got.ok
    /\ decoded[1].userdata.game.state = "XMove"
    /\ decoded[1].userdata.game.keep_alive = <<0, 0>>
    /\ decoded[1].got.state.inProgress

\* C12: isPeerAlive() returns true exactly when now - peerMarker < 10000, the
\* comparison strict (a difference of 9999 is alive, of 10000 is not), where
\* peerMarker is keep_alive index 1 for player X and index 0 for player O; so
\* a peer marker of 0 is never alive once now >= 10000.
C12_LivenessThreshold ==
    (returned # << >> /\ returned[1].op = "isPeerAlive")
       => /\ returned[1].value
                <=> (now - (IF isX THEN state.keep_alive[2] ELSE state.keep_alive[1])
                       < 10000)
          /\ (now - PeerMarker(state) = 9999) => returned[1].value
          /\ (now - PeerMarker(state) = 10000) => ~returned[1].value
          /\ (PeerMarker(state) = 0 /\ now >= 10000) => ~returned[1].value

\* C12 witness: player X has asked while O's marker (index 1) is 9999 old and
\* X's own (index 0) is 0: the peer is alive.
C12_Witness ==
    /\ returned # << >> /\ returned[1].op = "isPeerAlive" /\ returned[1].value
    /\ isX /\ now - state.keep_alive[2] = 9999 /\ state.keep_alive[1] = 0

\* A reading of isPeerAlive() at the other side of the boundary: the peer's
\* marker is 10000 old, the peer is not alive.
C12_WitnessNotAlive ==
    /\ returned # << >> /\ returned[1].op = "isPeerAlive" /\ ~returned[1].value
    /\ now - PeerMarker(state) = 10000

\* A step in which the caller's abandon() begins, and one in which it ends.
AbandonStep == invoked' # << >> /\ invoked'[1].op = "abandon"
AbandonEnds == call = "abandon" /\ call' # "abandon"

\* C13: abandon(), in any phase, has set abandoned = true by the time it
\* submits, and submits exactly one KeepAlive command whose timestamp is 0
\* (not the current time); abandoned is true while the send is outstanding
\* and when abandon() ends, whether the send succeeded or not.
C13_AbandonOrdering ==
    /\ [][AbandonStep
            => /\ abandoned'
               /\ sent' = <<[cmd |-> "KeepAlive", args |-> <<0>>]>>]_vars
    /\ [](call = "abandon" => abandoned)
    /\ [][AbandonEnds => (abandoned' /\ sent' = << >>)]_vars

\* C13 witness: an abandon() called in phase Draw has ended with its send
\* failed, and abandoned is true.
C13_Witness ==
    /\ returned # << >> /\ returned[1].op = "abandon" /\ returned[1].send = "failed"
    /\ state.gameState = "Draw" /\ abandoned

\* C14: when the KeepAlive(0) send of abandon() fails, the failure is logged
\* and abandon() still completes normally: it does not end rejected.
C14_AbandonFireAndForget ==
    (returned # << >> /\ returned[1].op = "abandon" /\ returned[1].send = "failed")
       => (returned[1].outcome = "resolved" /\ logged)

\* A step in which _onAccountChange ran on a buffer that decodes.
DecodedUpdateStep ==
    decoded' # << >> /\ decoded'[1].by = "bridge" /\ decoded'[1].got.ok

\* C15: every account update that decodes replaces the view wholesale by the
\* record decoded, applies the role derivation and the liveness adjustment,
\* and then emits exactly one change event, to exactly the listeners
\* registered at that moment (a listener removed earlier is not among them);
\* a listener invoked sees the new view and the already-updated abandoned.
C15_ChangeBridgeOrdering ==
    [][DecodedUpdateStep
         => LET game == decoded'[1].userdata.game
                turns == game.state \in {"XMove", "OMove"}
                alive == now - PeerMarker(state') < 10000
            IN  /\ state'.gameState = game.state
                /\ state'.keep_alive = game.keep_alive
                /\ state'.playerX = <<game.player_x>>
                /\ state'.playerO = game.player_o
                /\ state'.board = [i \in DOMAIN game.board |->
                                     IF game.board[i] = "F" THEN " " ELSE game.board[i]]
                /\ state'.myTurn <=> (game.state = (IF isX THEN "XMove" ELSE "OMove"))
                /\ state'.winner <=> (game.state = (IF isX THEN "XWon" ELSE "OWon"))
                /\ state'.draw <=> (game.state = "Draw")
                /\ state'.inProgress <=> (turns /\ alive)
                /\ abandoned' <=> (abandoned \/ (turns /\ ~alive))
                /\ _ee' = _ee
                /\ fired' = <<[to |-> _ee, state |-> state', abandoned |-> abandoned']>>]_vars

\* C15 witness: of two listeners only g is registered when an update in OMove
\* finds the peer gone; the one event goes to g alone and carries the view
\* with inProgress false and abandoned true.
C15_Witness ==
    /\ decoded # << >> /\ decoded[1].by = "bridge" /\ decoded[1].got.ok
    /\ _ee = {"g"}
    /\ fired = <<[to |-> {"g"}, state |-> state, abandoned |-> TRUE]>>
    /\ state.gameState = "OMove" /\ ~state.inProgress /\ abandoned

\* C16: for every buffer whose 4-byte length prefix says length + 4 > buffer
\* size, _getGameState throws the malformed-state error ('Invalid game state
\* length') and cbor.decode is never called on the payload.
C16_OverlongPrefixRejected ==
    (/\ decoded # << >>
     /\ decoded[1].userdata.size >= 4
     /\ decoded[1].userdata.length + 4 > decoded[1].userdata.size)
       => /\ ~decoded[1].got.ok
          /\ decoded[1].got.error = "Invalid game state length"
          /\ thrown = "Invalid game state length"
          /\ ~decoded[1].got.cbor

\* C16 witness: the change bridge was handed a 256-byte buffer whose prefix
\* says 253 and threw the length error.
C16_Witness ==
    /\ decoded # << >> /\ decoded[1].by = "bridge"
    /\ decoded[1].userdata.size = UserdataSpace
    /\ decoded[1].userdata.length = UserdataSpace - 3
    /\ thrown = "Invalid game state length"

\* A step in which the caller's move(x, y) begins, and one in which it ends.
MoveStep == invoked' # << >> /\ invoked'[1].op = "move"
MoveEnds == call = "move" /\ call' # "move"

\* C17: move(x, y) checks nothing locally and changes nothing locally: it can
\* be called in every state of a started session with no call outstanding
\* (not my turn, Waiting, a terminal phase, abandoned), it submits exactly one
\* Move command carrying x and y as given, it leaves the view, abandoned and
\* the subscription as they are, and when the send fails move() ends rejected.
C17_MoveHasNoLocalEffect ==
    /\ []((Started /\ call = Idle) => ENABLED Move)
    /\ [][MoveStep
            => /\ sent' = <<[cmd |-> "Move", args |-> invoked'[1].args]>>
               /\ Len(invoked'[1].args) = 2
               /\ state' = state /\ abandoned' = abandoned
               /\ _changeSubscriptionId' = _changeSubscriptionId
               /\ unsubscribed' = unsubscribed /\ subscribeCalls' = subscribeCalls
               /\ fired' = << >> /\ thrown' = "none"]_vars
    /\ [][MoveEnds
            => /\ returned'[1].op = "move"
               /\ returned'[1].outcome
                     = (IF returned'[1].send = "failed" THEN "rejected" ELSE "resolved")
               /\ sent' = << >>
               /\ state' = state /\ abandoned' = abandoned
               /\ _changeSubscriptionId' = _changeSubscriptionId]_vars

\* C17 witness: on an abandoned session whose view is in phase XWon and not
\* the caller's turn, move(2, 0) has just submitted ['Move', 2, 0].
C17_Witness ==
    /\ invoked = <<[op |-> "move", args |-> <<2, 0>>]>>
    /\ sent = <<[cmd |-> "Move", args |-> <<2, 0>>]>>
    /\ abandoned /\ state.gameState = "XWon" /\ ~state.myTurn

\* A move() that ended rejected because its send failed.
C17_WitnessRejected ==
    /\ returned # << >> /\ returned[1].op = "move"
    /\ returned[1].send = "failed" /\ returned[1].outcome = "rejected"

\* C18: a buffer whose payload exactly fills it (buffer size = length + 4) is
\* accepted by the decoder, and the malformed-state error is thrown only when
\* length + 4 exceeds the buffer size.
C18_ExactFillAccepted ==
    decoded # << >>
       => /\ (/\ decoded[1].userdata.size = decoded[1].userdata.length + 4
               /\ decoded[1].userdata.tag = "Game"
               /\ decoded[1].userdata.game.state \in Phases)
                 => decoded[1].got.ok
          /\ decoded[1].got.error = "Invalid game state length"
                 => decoded[1].userdata.length + 4 > decoded[1].userdata.size

\* A step in which _onAccountChange ran on a buffer with an over-long prefix,
\* a top-level tag other than 'Game', or a phase the program does not know.
FailedUpdateStep ==
    /\ decoded' # << >> /\ decoded'[1].by = "bridge"
    /\ \/ decoded'[1].userdata.length + 4 > decoded'[1].userdata.size
       \/ decoded'[1].userdata.tag # "Game"
       \/ decoded'[1].userdata.game.state \notin Phases

\* C19: an account update that fails in decoding or derivation is atomic: the
\* error is thrown to the caller of the bridge, the view, abandoned and the
\* subscription handle are exactly as before, and no change event is emitted.
C19_FailedUpdateAtomic ==
    [][FailedUpdateStep
         => /\ thrown' # "none"
            /\ state' = state
            /\ abandoned' = abandoned
            /\ _changeSubscriptionId' = _changeSubscriptionId
            /\ unsubscribed' = unsubscribed
            /\ fired' = << >>]_vars

\* C19 witness: a subscribed session with a listener, its view in OMove, was
\* handed a record of unknown phase: the error was thrown, no event emitted,
\* the view kept.
C19_Witness ==
    /\ decoded # << >> /\ decoded[1].by = "bridge"
    /\ decoded[1].userdata.game.state = "Bogus"
    /\ thrown = "Unhandled game state" /\ fired = << >>
    /\ _ee # {} /\ state.gameState = "OMove" /\ _changeSubscriptionId # NULL

\* C20: once abandoned is true, however ticks, sends in flight, account
\* updates and abandon() interleave, the session submits no KeepAlive with a
\* current timestamp: the only KeepAlive submitted in or after the step that
\* sets abandoned is the one with timestamp 0 that abandon() itself submits.
C20_NoLiveKeepAliveOnceAbandoned ==
    [][(abandoned' /\ sent' # << >> /\ sent'[1].cmd = "KeepAlive")
         => (sent'[1].args = <<0>> /\ AbandonStep)]_vars

\* C20 witness: abandon() was called while the loop's keepAlive() send was in
\* flight, on a view in XMove: the command just submitted is KeepAlive 0.
C20_Witness ==
    /\ abandoned /\ pc = "sending" /\ call = "abandon"
    /\ sent = <<[cmd |-> "KeepAlive", args |-> <<0>>]>>
    /\ state.gameState = "XMove"

\* An abandoned session whose loop is still armed after a send that settled.
C20_WitnessArmed == abandoned /\ pc = "timer" /\ forcedAbandon /\ sent = << >>

====
